---- MODULE Spec2Model ----
(***************************************************************************)
(* Session state machine of the DSA Preparation Coach (Rishi/app/page.js)  *)
(* together with the API routes it calls (app/api/*/route.js) and the      *)
(* components that gate its handlers (ChatInterface, CodeEditor,           *)
(* ComplexityModal, ProblemPanel).                                          *)
(*                                                                         *)
(* Every async handler is split at its await: the issuing step records the *)
(* values the handler closed over at the render it was created in, the     *)
(* reply step runs the rest of the handler against that closure.           *)
(* Texts are abstracted to the features the code branches on: a chat       *)
(* message to its length, an LLM text to the number of UNLOCK_EDITOR       *)
(* tokens and the presence of an unlock phrase, a code text to an id with  *)
(* its trimmed length.  Time is counted in seconds.                        *)
(*                                                                         *)
(* Further specifications over the same state exercise single components   *)
(* on drawn inputs: the code runners (RunnerSpec), the agent clients       *)
(* behind AgentOrchestrator (ClientSpec) and the hint heuristic            *)
(* (HeuristicSpec).                                                        *)
(***************************************************************************)
EXTENDS Integers, Sequences, FiniteSets, TLC

\* ------------------------------------------------------------------ bounds
MaxChat == 3
MaxHints == 2
MaxSentinels == 2
MaxCases == 3
MaxLines == 6

\* ------------------------------------------------------- program constants
UnlockMinLength == 30
TimerMinLength == 10
AutoHintMinLength == 20
QuietInterval == 3

Null == "null"

SessionStates == {"approach", "coding", "evaluation"}
SkillLevels == {"beginner", "intermediate", "advanced"}
Languages == {"javascript", "python"}

\* Problems a ProblemPanel load can produce, by id: a pasted problem without
\* example blocks ("custom") and the sample problem "1" (Two Sum, three cases).
Problems == {"custom", "1"}
TestCaseCount(p) == IF p = "1" THEN 3 ELSE 0
TitleHasTwoSum(p) == p = "1"
DescriptionHasArray(p) == p = "1"

\* Code texts, by id; TrimLength is code.trim().length of each.
CodeTexts == {"", "tpl_js", "tpl_py", "c25"}

\* Texts for the hint heuristic: plain texts (no loop, if or return) at the
\* lengths around its thresholds, and one text holding all three constructs.
HeuristicTexts ==
  {"c19", "c20", "c49", "c50", "c51", "c199", "c200", "c201", "s60"}

TrimLength(c) ==
  CASE c = "" -> 0
    [] c = "tpl_js" -> 60
    [] c = "tpl_py" -> 55
    [] c = "c25" -> 25
    [] c = "c19" -> 19
    [] c = "c20" -> 20
    [] c = "c49" -> 49
    [] c = "c50" -> 50
    [] c = "c51" -> 51
    [] c = "c199" -> 199
    [] c = "c200" -> 200
    [] c = "c201" -> 201
    [] c = "s60" -> 60

\* What the user can type into the unlocked Monaco editor.
TypedTexts == {"c25", "tpl_py"}

getDefaultCode(lang) == IF lang = "python" THEN "tpl_py" ELSE "tpl_js"

\* Lengths of the chat messages the user sends (ChatInterface refuses blank ones).
MessageLengths == {30, 31}

\* Complexity inputs typed into the modal, as character sequences.
ComplexityInputs == {<< >>, <<" ">>, <<"n">>}

\* --------------------------------------------------------------- the state
VARIABLES
  sessionState, isEditorLocked, hintsUsed, isLoading, showComplexityModal,
  isSubmitting, problem, skillLevel, code, language, editorValue,
  chatMessages, testResults, userApproach,
  mentorCall, hintCall, runCall, evalCall, autoHintCalls, greetingCalls,
  inactivityTimer, idleTime, firings, autoHintToast, problemText, mounted

vars == <<sessionState, isEditorLocked, hintsUsed, isLoading, showComplexityModal,
          isSubmitting, problem, skillLevel, code, language, editorValue,
          chatMessages, testResults, userApproach,
          mentorCall, hintCall, runCall, evalCall, autoHintCalls, greetingCalls,
          inactivityTimer, idleTime, firings, autoHintToast, problemText,
          mounted>>

\* ----------------------------------------------------------------- helpers
\* String.prototype.trim on a character sequence.
RECURSIVE TrimLeft(_)
TrimLeft(s) == IF s # << >> /\ Head(s) = " " THEN TrimLeft(Tail(s)) ELSE s

RECURSIVE TrimRight(_)
TrimRight(s) ==
  IF s # << >> /\ s[Len(s)] = " " THEN TrimRight(SubSeq(s, 1, Len(s) - 1)) ELSE s

Trim(s) == TrimRight(TrimLeft(s))

\* Outcomes of the Gemini request behind a route: a generated text, described
\* by its features, or a failure (network error, non-2xx status).
LLMTexts == [ok : {TRUE}, sentinels : 0..MaxSentinels, phrase : BOOLEAN]
LLMFailure == [ok |-> FALSE, sentinels |-> 0, phrase |-> FALSE]
LLMOutcomes == LLMTexts \cup {LLMFailure}

\* A route that does not branch on the text needs only the two cases.
PlainLLMOutcomes == {[ok |-> TRUE, sentinels |-> 0, phrase |-> FALSE], LLMFailure}

\* Outcomes of the browser's fetch of one of the app's own routes.
NetOutcomes == {"ok", "throw"}

\* A reply as the handler sees it: the fetch threw, or the route answered
\* after its LLM request ended one way or the other.
Outcome(net, llm) == [net |-> net, llm |-> llm]
Outcomes(llms) == {Outcome("throw", LLMFailure)} \cup {Outcome("ok", l) : l \in llms}

\* The values a handler closes over at the render that created it.
Closure(locked, state, prob, skill) ==
  [isEditorLocked |-> locked, sessionState |-> state, problem |-> prob,
   skillLevel |-> skill]

CurrentClosure == Closure(isEditorLocked, sessionState, problem, skillLevel)

\* CodeEditor.initializeEditor runs once, from the mount effect, and registers
\* onDidChangeModelContent with the onChange prop of the first render: the
\* handleCodeChange that closed over the initial useState values.
MountClosure == Closure(TRUE, "approach", Null, "beginner")

IdleCall == [active |-> FALSE]
IdleTimer == [armed |-> FALSE]

Message(role, kind, sentinels) ==
  [role |-> role, kind |-> kind, sentinels |-> sentinels]

\* ---------------------------------------------------------- mentor route
\* mentor/route.js callGeminiAPI: the text the route works with.  On failure
\* the catch returns the fixed apology, which contains neither the sentinel
\* nor any unlock phrase.
MentorGeminiText(llm) ==
  IF llm.ok THEN [sentinels |-> llm.sentinels, phrase |-> llm.phrase]
  ELSE [sentinels |-> 0, phrase |-> FALSE]

\* Mutant: the length fallback written with >= instead of >.
shouldUnlockEditorInclusive(response, approachLen) ==
  \/ response.sentinels > 0
  \/ approachLen >= UnlockMinLength
  \/ response.phrase

\* mentor/route.js shouldUnlockEditor(response, approach)
shouldUnlockEditor(response, approachLen) ==
  \/ response.sentinels > 0
  \/ approachLen > UnlockMinLength
  \/ response.phrase

\* response.replace("UNLOCK_EDITOR", ""): removes the first occurrence only.
StripSentinel(n) == IF n > 0 THEN n - 1 ELSE 0

\* Mutant: the route checks the message only, not the problem.
MentorRouteWithoutProblemCheck(req, llm) ==
  IF req.message = 0
  THEN [success |-> FALSE, canned |-> FALSE, sentinels |-> 0,
        unlockEditor |-> FALSE, newState |-> Null]
  ELSE LET response == MentorGeminiText(llm)
           shouldUnlock == req.sessionState = "approach"
                           /\ shouldUnlockEditor(response, req.message)
       IN [success |-> TRUE,
           canned |-> ~llm.ok,
           sentinels |-> StripSentinel(response.sentinels),
           unlockEditor |-> shouldUnlock,
           newState |-> IF shouldUnlock THEN "coding" ELSE req.sessionState]

\* mentor/route.js POST
MentorRoute(req, llm) ==
  IF req.message = 0 \/ req.problem = Null
  THEN [success |-> FALSE, canned |-> FALSE, sentinels |-> 0,
        unlockEditor |-> FALSE, newState |-> Null]
  ELSE LET response == MentorGeminiText(llm)
           shouldUnlock == req.sessionState = "approach"
                           /\ shouldUnlockEditor(response, req.message)
       IN [success |-> TRUE,
           canned |-> ~llm.ok,
           sentinels |-> StripSentinel(response.sentinels),
           unlockEditor |-> shouldUnlock,
           newState |-> IF shouldUnlock THEN "coding" ELSE req.sessionState]

\* -------------------------------------------------------- evaluate route
\* evaluate/route.js POST: callGeminiAPI catches its own failure and returns a
\* canned text, so the route answers success whenever the request is complete.
EvaluateRoute(req, llm) ==
  IF req.code = "" \/ req.problem = Null
     \/ req.timeComplexity = << >> \/ req.spaceComplexity = << >>
  THEN [success |-> FALSE, canned |-> FALSE]
  ELSE [success |-> TRUE, canned |-> ~llm.ok]

\* mentor/route.js getSkillContext: the persona text chosen for a skill level,
\* named by the level whose text it is.
getSkillContext(skill) == IF skill \in SkillLevels THEN skill ELSE "beginner"

\* Mutant: the hint route refuses hints to advanced users.
HintRouteBySkill(req, llm) ==
  IF req.problem = Null \/ req.skillLevel = "advanced"
  THEN [success |-> FALSE, hint |-> <<Null, 0>>]
  ELSE [success |-> TRUE, hint |-> <<"generated", 0>>]

\* ------------------------------------------------------------ hint route
\* The hint route's callGeminiAPI: the whole body is inside try, and the catch
\* returns a fixed sentence, so the call never throws.  A hint is a pair of
\* its origin and its index in a list.
HintGeminiText(llm) ==
  [threw |-> FALSE,
   hint |-> IF llm.ok THEN <<"generated", 0>> ELSE <<"consider", 0>>]

\* FALLBACK_HINTS: four hints per skill level.
FallbackHintCount == 4

FALLBACK_HINTS(skill) ==
  LET level == IF skill \in SkillLevels THEN skill ELSE "beginner"
  IN [i \in 1..FallbackHintCount |-> <<level, i>>]

\* hint route POST: a missing problem answers {error} without a success field;
\* otherwise the hint is what callGeminiAPI returned, and the predefined list
\* is used only if that call throws.
HintRoute(req, llm) ==
  IF req.problem = Null THEN [success |-> FALSE, hint |-> <<Null, 0>>]
  ELSE LET call == HintGeminiText(llm)
       IN IF call.threw
          THEN [success |-> TRUE,
                hint |-> FALLBACK_HINTS(req.skillLevel)
                           [(req.hintsUsed % FallbackHintCount) + 1]]
          ELSE [success |-> TRUE, hint |-> call.hint]

\* -------------------------------------------------- automatic-hint route
HasLoop(c) == c = "s60"
HasConditional(c) == c = "s60"
HasReturn(c) == c = "s60"

\* automatic-hint/route.js analyzeCodeProgress
analyzeCodeProgress(c) ==
  [isEmpty |-> TrimLength(c) < 20,
   isJustStarting |-> TrimLength(c) < 50,
   hasBasicStructure |-> TrimLength(c) > 50 /\ TrimLength(c) < 200,
   isWellDeveloped |-> TrimLength(c) > 200,
   hasLoop |-> HasLoop(c), hasConditional |-> HasConditional(c),
   hasReturn |-> HasReturn(c)]

\* getContextualHints: the branch of the stage if / else-if chain taken.
StageBranch(analysis) ==
  IF analysis.isEmpty THEN "none"
  ELSE IF analysis.isJustStarting THEN "generic"
  ELSE IF analysis.hasBasicStructure THEN "structural"
  ELSE IF analysis.isWellDeveloped THEN "testing"
  ELSE "noBranch"

\* getContextualHints: the hints pushed by the stage chain, in order.
StageHints(analysis, prob) ==
  CASE StageBranch(analysis) = "generic" ->
         <<"inputOutput", "dataStructure", "signature">>
    [] StageBranch(analysis) = "structural" ->
         (IF ~analysis.hasLoop /\ DescriptionHasArray(prob)
          THEN <<"iterate">> ELSE << >>)
         \o (IF ~analysis.hasConditional THEN <<"conditions">> ELSE << >>)
         \o (IF ~analysis.hasReturn THEN <<"return">> ELSE << >>)
    [] StageBranch(analysis) = "testing" ->
         <<"examples", "edgeCases", "complexity">>
    [] OTHER -> << >>

\* getContextualHints: the skill-level hint.
SkillHints(skill) ==
  IF skill = "beginner" THEN <<"stepByStep">>
  ELSE IF skill = "advanced" THEN <<"optimize">>
  ELSE << >>

\* automatic-hint/route.js getContextualHints: the ordered candidate hints, or
\* threw when the function fails (it reads the undeclared name `code` when the
\* title contains "two sum").
getContextualHints(analysis, prob, skill) ==
  IF analysis.isEmpty THEN [threw |-> FALSE, hints |-> << >>]
  ELSE IF TitleHasTwoSum(prob) THEN [threw |-> TRUE, hints |-> << >>]
  ELSE [threw |-> FALSE,
        hints |-> StageHints(analysis, prob) \o SkillHints(skill)]

\* automatic-hint/route.js POST: every success reply carries a non-empty hint
\* (the cleaned LLM text or one of the contextual hints).
AutoHintRoute(req) ==
  IF req.code = "" \/ req.problem = Null \/ req.sessionState # "coding"
  THEN [success |-> FALSE]
  ELSE LET contextualHints ==
             getContextualHints(analyzeCodeProgress(req.code), req.problem,
                                req.skillLevel)
       IN IF contextualHints.threw \/ contextualHints.hints = << >>
          THEN [success |-> FALSE]
          ELSE [success |-> TRUE]

\* -------------------------------------------------------- run-code route
TestResult(passed, error) == [passed |-> passed, error |-> error]

\* What the LLM's JSON may hold: the route relays it unchecked.
SimulatedRuns ==
  {[results |-> << >>, allPassed |-> TRUE],
   [results |-> <<TestResult(TRUE, FALSE), TestResult(FALSE, TRUE)>>,
    allPassed |-> FALSE]}

\* run-code route executeCode: the fallback list when the LLM fails or its
\* text holds no JSON object.
FailedRun(n) ==
  [results |-> [i \in 1..n |-> TestResult(FALSE, TRUE)], allPassed |-> FALSE]

\* run-code route POST
RunRoute(req, llm, json) ==
  IF req.code = "" \/ req.problem = Null \/ TestCaseCount(req.problem) = 0
  THEN [success |-> FALSE, results |-> << >>, allPassed |-> FALSE]
  ELSE LET r == IF llm.ok THEN json ELSE FailedRun(TestCaseCount(req.problem))
       IN [success |-> TRUE, results |-> r.results, allPassed |-> r.allPassed]

\* -------------------------------------------------------------------- Init
Init ==
  /\ sessionState = "approach"
  /\ isEditorLocked = TRUE
  /\ hintsUsed = 0
  /\ isLoading = FALSE
  /\ showComplexityModal = FALSE
  /\ isSubmitting = FALSE
  /\ problem = Null
  /\ skillLevel = "beginner"
  /\ code = ""
  /\ language = "javascript"
  /\ editorValue = getDefaultCode("javascript")
  /\ chatMessages = << >>
  /\ testResults = << >>
  /\ userApproach = 0
  /\ mentorCall = IdleCall
  /\ hintCall = IdleCall
  /\ runCall = IdleCall
  /\ evalCall = IdleCall
  /\ autoHintCalls = {}
  /\ greetingCalls = {}
  /\ inactivityTimer = IdleTimer
  /\ idleTime = 0
  /\ firings = 0
  /\ autoHintToast = FALSE
  /\ problemText = << >>
  /\ mounted = TRUE

\* ------------------------------------------------------------ send message
\* ChatInterface.handleSend + page.js handleSendMessage up to the fetch.
SendMessage(len) ==
  /\ ~isLoading
  /\ Len(chatMessages) + 2 <= MaxChat
  /\ isLoading' = TRUE
  /\ chatMessages' = Append(chatMessages, Message("user", "user", 0))
  /\ userApproach' = IF sessionState = "approach" THEN len ELSE userApproach
  /\ mentorCall' = [active |-> TRUE, message |-> len,
                    sessionState |-> sessionState,
                    isEditorLocked |-> isEditorLocked, problem |-> problem]
  /\ UNCHANGED <<sessionState, isEditorLocked, hintsUsed, showComplexityModal,
                 isSubmitting, problem, skillLevel, code, language, editorValue,
                 testResults, hintCall, runCall, evalCall,
                 autoHintCalls, greetingCalls, inactivityTimer, idleTime,
                 firings,
                 autoHintToast, problemText, mounted>>

\* page.js handleSendMessage after the await, run against its closure c.
MentorUnlocks(c, data) == data.unlockEditor /\ c.isEditorLocked

\* Mutant: the lock is set from the reply instead of only ever being released.
MentorNextLockedFromReply(c, data) == ~data.unlockEditor

MentorNextLocked(c, data) ==
  IF MentorUnlocks(c, data) THEN FALSE ELSE isEditorLocked

\* Mutant: the unlock releases the editor but no setSessionState runs.
MentorNextStateKeepsPhase(c, data) == sessionState

\* Mutant: newState is applied without comparing it with the closure's state.
MentorNextStateFromReply(c, data) ==
  IF data.newState # Null THEN data.newState ELSE sessionState

MentorNextState(c, data) ==
  IF data.newState # Null /\ data.newState # c.sessionState THEN data.newState
  ELSE IF MentorUnlocks(c, data) THEN "coding"
  ELSE sessionState

\* Mutant: a failed mentor call is only logged; no assistant message is
\* appended for it.
MentorReplySilentOnFailure(net, llm) ==
  /\ mentorCall.active
  /\ LET c == mentorCall
         data == MentorRoute(c, llm)
     IN IF net = "ok" /\ data.success
        THEN /\ chatMessages' =
                  Append(chatMessages,
                         Message("assistant",
                                 IF data.canned THEN "apology" ELSE "reply",
                                 data.sentinels))
             /\ isEditorLocked' = MentorNextLocked(c, data)
             /\ sessionState' = MentorNextState(c, data)
        ELSE UNCHANGED <<chatMessages, isEditorLocked, sessionState>>
  /\ isLoading' = FALSE
  /\ mentorCall' = IdleCall
  /\ UNCHANGED <<hintsUsed, showComplexityModal, isSubmitting, problem,
                 skillLevel, code, language, editorValue, testResults,
                 userApproach, hintCall, runCall, evalCall, autoHintCalls,
                 greetingCalls, inactivityTimer, idleTime, firings,
                 autoHintToast, problemText, mounted>>

MentorReply(net, llm) ==
  /\ mentorCall.active
  /\ LET c == mentorCall
         data == MentorRoute(c, llm)
     IN IF net = "ok" /\ data.success
        THEN /\ chatMessages' =
                  Append(chatMessages,
                         Message("assistant",
                                 IF data.canned THEN "apology" ELSE "reply",
                                 data.sentinels))
             /\ isEditorLocked' = MentorNextLocked(c, data)
             /\ sessionState' = MentorNextState(c, data)
        ELSE /\ chatMessages' =
                  Append(chatMessages,
                         Message("assistant", "fallback", 0))
             /\ UNCHANGED <<isEditorLocked, sessionState>>
  /\ isLoading' = FALSE
  /\ mentorCall' = IdleCall
  /\ UNCHANGED <<hintsUsed, showComplexityModal, isSubmitting, problem,
                 skillLevel, code, language, editorValue, testResults,
                 userApproach, hintCall, runCall, evalCall, autoHintCalls,
                 greetingCalls, inactivityTimer, idleTime, firings,
                 autoHintToast, problemText, mounted>>

\* Mutant: the action buttons are not disabled while a call is in flight.
ButtonsEnabledWhileLoading == sessionState = "coding" /\ ~isEditorLocked

\* ------------------------------------------------------------------- hints
\* The Hint / Run / Submit buttons are rendered only in coding with the editor
\* unlocked, and are disabled while isLoading.
ButtonsEnabled == sessionState = "coding" /\ ~isEditorLocked /\ ~isLoading

\* page.js handleHintRequest up to the fetch.
HintRequest ==
  /\ ButtonsEnabled
  /\ hintsUsed < MaxHints
  /\ isLoading' = TRUE
  /\ hintCall' = [active |-> TRUE, problem |-> problem,
                  skillLevel |-> skillLevel, hintsUsed |-> hintsUsed]
  /\ UNCHANGED <<sessionState, isEditorLocked, hintsUsed, showComplexityModal,
                 isSubmitting, problem, skillLevel, code, language, editorValue,
                 chatMessages, testResults, userApproach, mentorCall,
                 runCall, evalCall, autoHintCalls, greetingCalls,
                 inactivityTimer, idleTime, firings,
                 autoHintToast, problemText, mounted>>

\* Mutant: the flag is cleared only when the fetch resolved.
HintReplyLoadingOnSuccessOnly(net, llm) ==
  /\ hintCall.active
  /\ hintsUsed' = IF net = "ok" /\ HintRoute(hintCall, llm).success
                  THEN hintsUsed + 1 ELSE hintsUsed
  /\ isLoading' = (net # "ok")
  /\ hintCall' = IdleCall
  /\ UNCHANGED <<sessionState, isEditorLocked, showComplexityModal,
                 isSubmitting, problem, skillLevel, code, language, editorValue,
                 chatMessages, testResults, userApproach, mentorCall, runCall,
                 evalCall, autoHintCalls, greetingCalls, inactivityTimer,
                 idleTime, firings,
                 autoHintToast, problemText, mounted>>

\* page.js handleHintRequest after the await.
HintReply(net, llm) ==
  /\ hintCall.active
  /\ LET data == HintRoute(hintCall, llm)
     IN IF net = "ok"
        THEN IF data.success
             THEN hintsUsed' = hintsUsed + 1
             ELSE hintsUsed' = hintsUsed
        ELSE hintsUsed' = hintsUsed
  /\ isLoading' = FALSE
  /\ hintCall' = IdleCall
  /\ UNCHANGED <<sessionState, isEditorLocked, showComplexityModal,
                 isSubmitting, problem, skillLevel, code, language, editorValue,
                 chatMessages, testResults, userApproach, mentorCall, runCall,
                 evalCall, autoHintCalls, greetingCalls, inactivityTimer,
                 idleTime, firings,
                 autoHintToast, problemText, mounted>>

\* ---------------------------------------------------------------- run code
\* page.js handleRunCode up to the fetch.
RunCode ==
  /\ ButtonsEnabled
  /\ isLoading' = TRUE
  /\ runCall' = [active |-> TRUE, code |-> code, problem |-> problem]
  /\ UNCHANGED <<sessionState, isEditorLocked, hintsUsed, showComplexityModal,
                 isSubmitting, problem, skillLevel, code, language, editorValue,
                 chatMessages, testResults, userApproach, mentorCall,
                 hintCall, evalCall, autoHintCalls, greetingCalls,
                 inactivityTimer, idleTime, firings,
                 autoHintToast, problemText, mounted>>

\* Mutant: the new results are added to the list instead of replacing it.
RunReplyMerging(net, llm, json) ==
  /\ runCall.active
  /\ LET data == RunRoute(runCall, llm, json)
     IN IF net = "ok"
        THEN IF data.success
             THEN testResults' = testResults \o data.results
             ELSE testResults' = testResults
        ELSE testResults' = testResults
  /\ isLoading' = FALSE
  /\ runCall' = IdleCall
  /\ UNCHANGED <<sessionState, isEditorLocked, hintsUsed, showComplexityModal,
                 isSubmitting, problem, skillLevel, code, language, editorValue,
                 chatMessages, userApproach, mentorCall, hintCall, evalCall,
                 autoHintCalls, greetingCalls, inactivityTimer, idleTime,
                 firings,
                 autoHintToast, problemText, mounted>>

\* page.js handleRunCode after the await.
RunReply(net, llm, json) ==
  /\ runCall.active
  /\ LET data == RunRoute(runCall, llm, json)
     IN IF net = "ok"
        THEN IF data.success
             THEN testResults' = data.results
             ELSE testResults' = testResults
        ELSE testResults' = testResults
  /\ isLoading' = FALSE
  /\ runCall' = IdleCall
  /\ UNCHANGED <<sessionState, isEditorLocked, hintsUsed, showComplexityModal,
                 isSubmitting, problem, skillLevel, code, language, editorValue,
                 chatMessages, userApproach, mentorCall, hintCall, evalCall,
                 autoHintCalls, greetingCalls, inactivityTimer, idleTime,
                 firings,
                 autoHintToast, problemText, mounted>>

\* ------------------------------------------------------------------ submit
\* page.js handleSubmitClick
SubmitClick ==
  /\ ButtonsEnabled
  /\ ~showComplexityModal
  /\ showComplexityModal' = TRUE
  /\ UNCHANGED <<sessionState, isEditorLocked, hintsUsed, isLoading,
                 isSubmitting, problem, skillLevel, code, language, editorValue,
                 chatMessages, testResults, userApproach, mentorCall,
                 hintCall, runCall, evalCall, autoHintCalls, greetingCalls,
                 inactivityTimer, idleTime, firings,
                 autoHintToast, problemText, mounted>>

\* Mutant: the space-complexity field is not validated.
ComplexityErrorsTimeOnly(tc, sc) == IF Trim(tc) = << >> THEN {"time"} ELSE {}

\* ComplexityModal.handleSubmit validation: the fields that get an error.
ComplexityErrors(tc, sc) ==
  (IF Trim(tc) = << >> THEN {"time"} ELSE {})
  \cup (IF Trim(sc) = << >> THEN {"space"} ELSE {})

\* ComplexityModal.handleSubmit + page.js handleComplexitySubmit up to the
\* fetch; with validation errors only the error texts change.
ModalSubmit(tc, sc) ==
  /\ showComplexityModal
  /\ ~isSubmitting
  /\ IF ComplexityErrors(tc, sc) = {}
     THEN /\ isSubmitting' = TRUE
          /\ evalCall' = [active |-> TRUE, code |-> code, problem |-> problem,
                          timeComplexity |-> Trim(tc),
                          spaceComplexity |-> Trim(sc),
                          sessionState |-> sessionState]
     ELSE UNCHANGED <<isSubmitting, evalCall>>
  /\ UNCHANGED <<sessionState, isEditorLocked, hintsUsed, isLoading,
                 showComplexityModal, problem, skillLevel, code, language,
                 editorValue, chatMessages, testResults, userApproach, mentorCall, hintCall, runCall, autoHintCalls, greetingCalls,
                 inactivityTimer, idleTime, firings,
                 autoHintToast, problemText, mounted>>

\* page.js handleComplexitySubmit after the await, then the modal's finally.
EvalReply(net, llm) ==
  /\ evalCall.active
  /\ LET data == EvaluateRoute(evalCall, llm)
     IN IF net = "ok" /\ data.success
        THEN /\ chatMessages' =
                  Append(chatMessages,
                         Message("assistant",
                                 IF data.canned THEN "cannedEvaluation"
                                 ELSE "evaluation", 0))
             /\ sessionState' = "evaluation"
             /\ showComplexityModal' = FALSE
        ELSE UNCHANGED <<chatMessages, sessionState, showComplexityModal>>
  /\ isSubmitting' = FALSE
  /\ evalCall' = IdleCall
  /\ UNCHANGED <<isEditorLocked, hintsUsed, isLoading, problem, skillLevel, code,
                 language, editorValue, testResults, userApproach, mentorCall,
                 hintCall, runCall, autoHintCalls, greetingCalls,
                 inactivityTimer, idleTime, firings,
                 autoHintToast, problemText, mounted>>

\* ComplexityModal.handleClose
ModalClose ==
  /\ showComplexityModal
  /\ ~isSubmitting
  /\ showComplexityModal' = FALSE
  /\ UNCHANGED <<sessionState, isEditorLocked, hintsUsed, isLoading,
                 isSubmitting, problem, skillLevel, code, language, editorValue,
                 chatMessages, testResults, userApproach, mentorCall,
                 hintCall, runCall, evalCall, autoHintCalls, greetingCalls,
                 inactivityTimer, idleTime, firings,
                 autoHintToast, problemText, mounted>>

\* ------------------------------------------------- problem load, skill level
\* ProblemPanel.handlePasteProblem / handleLeetcodeFetch: onProblemLoad, then
\* the delayed onInitialMessage.
ProblemLoad(p) ==
  /\ problem' = p
  /\ greetingCalls' = greetingCalls \cup {p}
  /\ UNCHANGED <<sessionState, isEditorLocked, hintsUsed, isLoading,
                 showComplexityModal, isSubmitting, skillLevel, code, language,
                 editorValue, chatMessages, testResults, userApproach, mentorCall, hintCall, runCall, evalCall, autoHintCalls,
                 inactivityTimer, idleTime, firings,
                 autoHintToast, problemText, mounted>>

\* page.js handleInitialMessage after the await: the greeting replaces the log.
GreetingReply(p, net) ==
  /\ p \in greetingCalls
  /\ greetingCalls' = greetingCalls \ {p}
  /\ chatMessages' = <<Message("assistant", "greeting", 0)>>
  /\ UNCHANGED <<sessionState, isEditorLocked, hintsUsed, isLoading,
                 showComplexityModal, isSubmitting, problem, skillLevel, code,
                 language, editorValue, testResults, userApproach, mentorCall, hintCall, runCall, evalCall, autoHintCalls,
                 inactivityTimer, idleTime, firings,
                 autoHintToast, problemText, mounted>>

\* SkillLevelSelector onChange = setSkillLevel; the effect re-creates the
\* orchestrator object, which holds no session state.
SkillChange(s) ==
  /\ s # skillLevel
  /\ skillLevel' = s
  /\ UNCHANGED <<sessionState, isEditorLocked, hintsUsed, isLoading,
                 showComplexityModal, isSubmitting, problem, code, language,
                 editorValue, chatMessages, testResults, userApproach, mentorCall, hintCall, runCall, evalCall, autoHintCalls,
                 greetingCalls, inactivityTimer, idleTime, firings,
                 autoHintToast, problemText, mounted>>

\* ------------------------------------------------- code edits and the timer
\* page.js handleCodeChange under closure cl: the pending timer is cleared, and
\* a new one is armed only if cl says unlocked, coding, and the code is long
\* enough.  The timer keeps newCode and the closure for handleAutomaticHint.
TimerAfterChange(newCode, cl) ==
  IF ~cl.isEditorLocked /\ cl.sessionState = "coding"
     /\ TrimLength(newCode) > TimerMinLength
  THEN [armed |-> TRUE, delay |-> QuietInterval, code |-> newCode,
        problem |-> cl.problem, skillLevel |-> cl.skillLevel,
        sessionState |-> cl.sessionState]
  ELSE IdleTimer

\* The closure of the onChange that Monaco's content-change listener calls.
EditorListenerClosure == MountClosure

\* The user types in the Monaco editor (writable only when unlocked):
\* onDidChangeModelContent -> onChange(value).
EditCode(v) ==
  /\ ~isEditorLocked
  /\ v # editorValue
  /\ editorValue' = v
  /\ code' = v
  /\ idleTime' = 0
  /\ inactivityTimer' = TimerAfterChange(v, EditorListenerClosure)
  /\ firings' = 0
  /\ UNCHANGED <<sessionState, isEditorLocked, hintsUsed, isLoading,
                 showComplexityModal, isSubmitting, problem, skillLevel,
                 language, chatMessages, testResults, userApproach, mentorCall, hintCall, runCall, evalCall, autoHintCalls,
                 greetingCalls,
                 autoHintToast, problemText, mounted>>

\* The language Select: setLanguage, then CodeEditor's [language] effect calls
\* the current onChange with the template, then the [code] effect pushes the
\* template into Monaco with setValue when it differs, which runs the
\* content-change listener (and its mount-time onChange) once more.
LanguageChange(lang) ==
  /\ lang # language
  /\ language' = lang
  /\ code' = getDefaultCode(lang)
  /\ editorValue' = getDefaultCode(lang)
  /\ idleTime' = 0
  /\ inactivityTimer' =
       IF editorValue # getDefaultCode(lang)
       THEN TimerAfterChange(getDefaultCode(lang), EditorListenerClosure)
       ELSE TimerAfterChange(getDefaultCode(lang), CurrentClosure)
  /\ firings' = 0
  /\ UNCHANGED <<sessionState, isEditorLocked, hintsUsed, isLoading,
                 showComplexityModal, isSubmitting, problem, skillLevel,
                 chatMessages, testResults, userApproach, mentorCall, hintCall, runCall, evalCall, autoHintCalls,
                 greetingCalls,
                 autoHintToast, problemText, mounted>>

\* One second passes; a due timer runs first.
Tick ==
  /\ idleTime < QuietInterval
  /\ ~(inactivityTimer.armed /\ idleTime >= inactivityTimer.delay)
  /\ idleTime' = idleTime + 1
  /\ UNCHANGED <<sessionState, isEditorLocked, hintsUsed, isLoading,
                 showComplexityModal, isSubmitting, problem, skillLevel, code,
                 language, editorValue, chatMessages, testResults, userApproach,
                 mentorCall, hintCall, runCall, evalCall,
                 autoHintCalls, greetingCalls, inactivityTimer, firings,
                 autoHintToast, problemText, mounted>>

\* page.js handleAutomaticHint up to the fetch, under the timer's closure.
AutomaticHintRequests(t) ==
  IF TrimLength(t.code) < AutoHintMinLength \/ t.problem = Null THEN {}
  ELSE {[code |-> t.code, problem |-> t.problem, skillLevel |-> t.skillLevel,
         sessionState |-> t.sessionState]}

\* The setTimeout callback of handleCodeChange.
TimerFire ==
  /\ inactivityTimer.armed
  /\ idleTime >= inactivityTimer.delay
  /\ inactivityTimer' = IdleTimer
  /\ IF idleTime >= QuietInterval
     THEN /\ firings' = firings + 1
          /\ autoHintCalls' = autoHintCalls \cup AutomaticHintRequests(inactivityTimer)
     ELSE UNCHANGED <<firings, autoHintCalls>>
  /\ UNCHANGED <<sessionState, isEditorLocked, hintsUsed, isLoading,
                 showComplexityModal, isSubmitting, problem, skillLevel, code,
                 language, editorValue, chatMessages, testResults, userApproach,
                 mentorCall, hintCall, runCall, evalCall,
                 greetingCalls, idleTime,
                 autoHintToast, problemText, mounted>>

\* Mutant: a surfaced automatic hint is counted like an explicit one.
AutoHintReplyCounted(req, net) ==
  /\ req \in autoHintCalls
  /\ autoHintCalls' = autoHintCalls \ {req}
  /\ autoHintToast' = IF net = "ok" /\ AutoHintRoute(req).success THEN TRUE
                      ELSE autoHintToast
  /\ hintsUsed' = IF net = "ok" /\ AutoHintRoute(req).success THEN hintsUsed + 1
                  ELSE hintsUsed
  /\ UNCHANGED <<sessionState, isEditorLocked, isLoading,
                 showComplexityModal, isSubmitting, problem, skillLevel, code,
                 language, editorValue, chatMessages, testResults, userApproach,
                 mentorCall, hintCall, runCall, evalCall, greetingCalls,
                 inactivityTimer, idleTime, firings, problemText, mounted>>

\* page.js handleAutomaticHint after the await.
AutoHintReply(req, net) ==
  /\ req \in autoHintCalls
  /\ autoHintCalls' = autoHintCalls \ {req}
  /\ autoHintToast' = IF net = "ok" /\ AutoHintRoute(req).success THEN TRUE
                      ELSE autoHintToast
  /\ UNCHANGED <<sessionState, isEditorLocked, hintsUsed, isLoading,
                 showComplexityModal, isSubmitting, problem, skillLevel, code,
                 language, editorValue, chatMessages, testResults, userApproach,
                 mentorCall, hintCall, runCall, evalCall, greetingCalls,
                 inactivityTimer, idleTime, firings, problemText, mounted>>

\* page.js showToast: the toast removes itself after 4 seconds.
ToastExpire ==
  /\ autoHintToast
  /\ autoHintToast' = FALSE
  /\ UNCHANGED <<sessionState, isEditorLocked, hintsUsed, isLoading,
                 showComplexityModal, isSubmitting, problem, skillLevel, code,
                 language, editorValue, chatMessages, testResults, userApproach,
                 mentorCall, hintCall, runCall, evalCall, autoHintCalls,
                 greetingCalls, inactivityTimer, idleTime, firings, problemText, mounted>>

\* ---------------------------------------------------------- specifications
SessionActions ==
  \/ \E len \in MessageLengths : SendMessage(len)
  \/ \E o \in Outcomes(LLMOutcomes) : MentorReply(o.net, o.llm)
  \/ HintRequest
  \/ \E o \in Outcomes(PlainLLMOutcomes) : HintReply(o.net, o.llm)
  \/ SubmitClick
  \/ \E tc \in ComplexityInputs, sc \in ComplexityInputs : ModalSubmit(tc, sc)
  \/ \E o \in Outcomes(PlainLLMOutcomes) : EvalReply(o.net, o.llm)
  \/ ModalClose

RunActions ==
  \/ RunCode
  \/ \E o \in Outcomes(PlainLLMOutcomes), json \in SimulatedRuns :
       RunReply(o.net, o.llm, json)

SkillActions == \E s \in SkillLevels : SkillChange(s)

TypeActions == \E v \in TypedTexts : EditCode(v)

LanguageActions == \E lang \in Languages : LanguageChange(lang)

AutoHintActions ==
  \E req \in autoHintCalls, net \in NetOutcomes : AutoHintReply(req, net)

\* The session: every user action and reply that reads or writes the phase,
\* the editor lock, the hint count, the in-flight flags or the chat log.  One
\* problem is enough here: these handlers and routes only ask whether a
\* problem is loaded.
Next ==
  \/ SessionActions
  \/ RunActions
  \/ \E p \in {"1"} : ProblemLoad(p)
  \/ \E p \in {"1"}, net \in NetOutcomes : GreetingReply(p, net)
  \/ SkillActions
  \/ TypeActions

Spec == Init /\ [][Next]_vars

\* The inactivity path: what is needed to reach and leave the coding phase,
\* the edits, the clock, the timer and the automatic-hint call.
TimerNext ==
  \/ \E len \in MessageLengths : SendMessage(len)
  \/ \E o \in Outcomes(LLMOutcomes) : MentorReply(o.net, o.llm)
  \/ SubmitClick
  \/ \E tc \in ComplexityInputs, sc \in ComplexityInputs : ModalSubmit(tc, sc)
  \/ \E o \in Outcomes(PlainLLMOutcomes) : EvalReply(o.net, o.llm)
  \/ \E p \in Problems : ProblemLoad(p)
  \/ TypeActions
  \/ LanguageActions
  \/ Tick
  \/ TimerFire
  \/ AutoHintActions
  \/ ToastExpire

TimerSpec == Init /\ [][TimerNext]_vars

\* ------------------------------------------------------------ code runner
\* The code runners of the repository as functions of what executing each
\* test case does: CodeAgent.runTests behind orchestrator.runCode, the
\* run-code route whose executeCode relays the JSON of the simulating LLM, and
\* the /execute route with CodeExecutionService (Piston) behind the second
\* CodeEditor's handleRunCode.

\* CodeAgent.executeCode on one test case: a result equal to the expected
\* output, a different result, or a thrown execution error.
ExecOutcomes == {"match", "differ", "throw"}

SeqsUpTo(S, n) == UNION {[1..k -> S] : k \in 0..n}

\* CodeAgent.runTests loop body: neither branch sets an error field.
agentResult(o) == TestResult(o = "match", FALSE)

\* Mutant: one try around the whole loop, so the first exception ends the run.
runTestsAbortOnThrow(cases) ==
  LET throws == {i \in 1..Len(cases) : cases[i] = "throw"}
      n == IF throws = {} THEN Len(cases)
           ELSE (CHOOSE i \in throws : \A j \in throws : i <= j) - 1
  IN [i \in 1..n |-> agentResult(cases[i])]

\* CodeAgent.runTests
runTests(cases) == [i \in 1..Len(cases) |-> agentResult(cases[i])]

\* Any JSON object of the requested shape that the simulating LLM may return.
RunnerJsons ==
  [results : SeqsUpTo([passed : BOOLEAN, error : BOOLEAN], MaxCases),
   allPassed : BOOLEAN]

\* What one Piston call does: axios throws, or a run comes back whose stdout
\* equals the expected output or not and whose stderr is empty or not.
PistonOutcomes ==
  {o \in [threw : BOOLEAN, stdoutMatches : BOOLEAN, stderr : BOOLEAN] :
     o.threw => (~o.stdoutMatches /\ ~o.stderr)}

\* CodeExecutionService.runTestCase
runTestCase(o) ==
  IF o.threw THEN TestResult(FALSE, TRUE)
  ELSE TestResult(o.stdoutMatches, o.stderr)

\* CodeExecutionService.executeCode
serviceExecuteCode(cases) ==
  [success |-> TRUE,
   results |-> [i \in 1..Len(cases) |-> runTestCase(cases[i])]]

\* router.post("/execute"): an empty testCases array is not a missing field.
ExecuteRoute(req) ==
  IF req.code = "" \/ ~req.hasTestCases
  THEN [success |-> FALSE, results |-> << >>]
  ELSE serviceExecuteCode(req.cases)

RunnerRequests ==
  {[active |-> TRUE, runner |-> "agent", cases |-> c] :
     c \in SeqsUpTo(ExecOutcomes, MaxCases)}
  \cup
  {[active |-> TRUE, runner |-> "route", code |-> "c25", problem |-> p,
    llm |-> l, json |-> j] :
     p \in Problems, l \in PlainLLMOutcomes, j \in RunnerJsons}
  \cup
  {[active |-> TRUE, runner |-> "service", issued |-> FALSE, code |-> "c25",
    hasTestCases |-> TRUE, cases |-> c] :
     c \in SeqsUpTo(PistonOutcomes, MaxCases)}

\* The result list a run may find: empty, or left by an earlier run.
PreviousResults == {<< >>, <<TestResult(TRUE, FALSE)>>}

\* One run request against a session in coding.
RunnerInit ==
  /\ sessionState = "coding"
  /\ isEditorLocked = FALSE
  /\ hintsUsed = 0
  /\ isLoading = TRUE
  /\ showComplexityModal = FALSE
  /\ isSubmitting = FALSE
  /\ problem = "1"
  /\ skillLevel = "beginner"
  /\ code = "c25"
  /\ language = "javascript"
  /\ editorValue = "c25"
  /\ chatMessages = << >>
  /\ testResults \in PreviousResults
  /\ userApproach = 0
  /\ mentorCall = IdleCall
  /\ hintCall = IdleCall
  /\ runCall \in RunnerRequests
  /\ evalCall = IdleCall
  /\ autoHintCalls = {}
  /\ greetingCalls = {}
  /\ inactivityTimer = IdleTimer
  /\ idleTime = 0
  /\ firings = 0
  /\ autoHintToast = FALSE
  /\ problemText = << >>
  /\ mounted = TRUE

\* orchestrator.runCode -> CodeAgent.runTests
AgentRunTests ==
  /\ runCall.active
  /\ runCall.runner = "agent"
  /\ testResults' = runTests(runCall.cases)
  /\ isLoading' = FALSE
  /\ runCall' = IdleCall
  /\ UNCHANGED <<sessionState, isEditorLocked, hintsUsed, showComplexityModal,
                 isSubmitting, problem, skillLevel, code, language, editorValue,
                 chatMessages, userApproach, mentorCall, hintCall, evalCall,
                 autoHintCalls, greetingCalls, inactivityTimer, idleTime,
                 firings, autoHintToast, problemText, mounted>>

\* The run-code route answering page.js handleRunCode.
RouteExecute ==
  /\ runCall.active
  /\ runCall.runner = "route"
  /\ RunReply("ok", runCall.llm, runCall.json)

\* The second CodeEditor's handleRunCode up to the fetch: setResults(null).
ServiceRunCode ==
  /\ runCall.active
  /\ runCall.runner = "service"
  /\ ~runCall.issued
  /\ testResults' = << >>
  /\ runCall' = [runCall EXCEPT !.issued = TRUE]
  /\ UNCHANGED <<sessionState, isEditorLocked, hintsUsed, isLoading,
                 showComplexityModal, isSubmitting, problem, skillLevel, code,
                 language, editorValue, chatMessages, userApproach, mentorCall,
                 hintCall, evalCall, autoHintCalls, greetingCalls,
                 inactivityTimer, idleTime, firings, autoHintToast, problemText, mounted>>

\* The /execute route answering, and handleRunCode after the await.
ServiceReply ==
  /\ runCall.active
  /\ runCall.runner = "service"
  /\ runCall.issued
  /\ testResults' = IF ExecuteRoute(runCall).success
                    THEN ExecuteRoute(runCall).results
                    ELSE testResults
  /\ isLoading' = FALSE
  /\ runCall' = IdleCall
  /\ UNCHANGED <<sessionState, isEditorLocked, hintsUsed, showComplexityModal,
                 isSubmitting, problem, skillLevel, code, language, editorValue,
                 chatMessages, userApproach, mentorCall, hintCall, evalCall,
                 autoHintCalls, greetingCalls, inactivityTimer, idleTime,
                 firings, autoHintToast, problemText, mounted>>

RunnerNext == AgentRunTests \/ RouteExecute \/ ServiceRunCode \/ ServiceReply

RunnerSpec == RunnerInit /\ [][RunnerNext]_vars

\* ----------------------------------------------------------- agent clients
\* MentorAgent and EvaluationAgent behind AgentOrchestrator: each operation
\* posts to a route and returns a field of the payload, or a static text when
\* the fetch throws.  A reply is abstracted to its kind; Undefined is the
\* value of a field the payload does not have.
Undefined == "undefined"

\* data.response of the mentor route's payload.
MentorResponseField(data) ==
  IF data.success THEN (IF data.canned THEN "apology" ELSE "reply")
  ELSE Undefined

\* MentorAgent.evaluateApproach
evaluateApproach(approach, prob, net, llm) ==
  IF net = "throw"
  THEN [message |-> "fallback", shouldUnlockEditor |-> FALSE]
  ELSE LET data == MentorRoute([message |-> approach, problem |-> prob,
                                sessionState |-> "approach"], llm)
       IN [message |-> MentorResponseField(data),
           shouldUnlockEditor |-> data.unlockEditor]

\* MentorAgent.provideCodingGuidance
provideCodingGuidance(message, prob, net, llm) ==
  IF net = "throw" THEN "fallback"
  ELSE MentorResponseField(MentorRoute([message |-> message, problem |-> prob,
                                        sessionState |-> "coding"], llm))

\* EvaluationAgent.generateFeedback
generateFeedback(message, prob, net, llm) ==
  IF net = "throw" THEN "fallback"
  ELSE MentorResponseField(MentorRoute([message |-> message, problem |-> prob,
                                        sessionState |-> "evaluation"], llm))

\* EvaluationAgent.evaluateSubmission: the request body carries no
\* timeComplexity and no spaceComplexity.
evaluateSubmission(c, prob, net, llm) ==
  IF net = "throw" THEN "fallback"
  ELSE LET data == EvaluateRoute([code |-> c, problem |-> prob,
                                  timeComplexity |-> << >>,
                                  spaceComplexity |-> << >>], llm)
       IN IF data.success
          THEN (IF data.canned THEN "cannedEvaluation" ELSE "evaluation")
          ELSE Undefined

ClientRequests ==
  [active : {TRUE}, op : {"message", "submit"}, message : MessageLengths,
   outcome : Outcomes(LLMOutcomes)]

\* One orchestrator call against a session in any phase.
ClientInit ==
  /\ sessionState \in SessionStates
  /\ isEditorLocked = (sessionState = "approach")
  /\ hintsUsed = 0
  /\ isLoading = TRUE
  /\ showComplexityModal = FALSE
  /\ isSubmitting = FALSE
  /\ problem \in {Null, "1"}
  /\ skillLevel \in SkillLevels
  /\ code \in {"", "c25"}
  /\ language = "javascript"
  /\ editorValue = code
  /\ chatMessages = << >>
  /\ testResults = << >>
  /\ userApproach = 0
  /\ mentorCall \in ClientRequests
  /\ mentorCall.op = "submit" => sessionState = "coding"
  /\ hintCall = IdleCall
  /\ runCall = IdleCall
  /\ evalCall = IdleCall
  /\ autoHintCalls = {}
  /\ greetingCalls = {}
  /\ inactivityTimer = IdleTimer
  /\ idleTime = 0
  /\ firings = 0
  /\ autoHintToast = FALSE
  /\ problemText = << >>
  /\ mounted = TRUE

\* AgentOrchestrator.processUserMessage with handleApproachPhase,
\* handleCodingPhase and handleEvaluationPhase; the callbacks are the setters
\* page.js passes to the constructor.
ProcessUserMessage ==
  /\ mentorCall.active
  /\ mentorCall.op = "message"
  /\ LET o == mentorCall.outcome
         response == evaluateApproach(mentorCall.message, problem, o.net, o.llm)
     IN CASE sessionState = "approach" ->
               /\ mentorCall' = [active |-> FALSE, reply |-> response.message]
               /\ IF response.shouldUnlockEditor
                  THEN isEditorLocked' = FALSE /\ sessionState' = "coding"
                  ELSE UNCHANGED <<isEditorLocked, sessionState>>
          [] sessionState = "coding" ->
               /\ mentorCall' =
                    [active |-> FALSE,
                     reply |-> provideCodingGuidance(mentorCall.message,
                                                     problem, o.net, o.llm)]
               /\ UNCHANGED <<isEditorLocked, sessionState>>
          [] sessionState = "evaluation" ->
               /\ mentorCall' =
                    [active |-> FALSE,
                     reply |-> generateFeedback(mentorCall.message, problem,
                                                o.net, o.llm)]
               /\ UNCHANGED <<isEditorLocked, sessionState>>
  /\ isLoading' = FALSE
  /\ UNCHANGED <<hintsUsed, showComplexityModal, isSubmitting, problem,
                 skillLevel, code, language, editorValue, chatMessages,
                 testResults, userApproach, hintCall, runCall, evalCall,
                 autoHintCalls, greetingCalls, inactivityTimer, idleTime,
                 firings, autoHintToast, problemText, mounted>>

\* AgentOrchestrator.evaluateSubmission
OrchestratorEvaluate ==
  /\ mentorCall.active
  /\ mentorCall.op = "submit"
  /\ mentorCall' =
       [active |-> FALSE,
        reply |-> evaluateSubmission(code, problem, mentorCall.outcome.net,
                                     mentorCall.outcome.llm)]
  /\ sessionState' = "evaluation"
  /\ isLoading' = FALSE
  /\ UNCHANGED <<isEditorLocked, hintsUsed, showComplexityModal, isSubmitting,
                 problem, skillLevel, code, language, editorValue,
                 chatMessages, testResults, userApproach, hintCall, runCall,
                 evalCall, autoHintCalls, greetingCalls, inactivityTimer,
                 idleTime, firings, autoHintToast, problemText, mounted>>

ClientNext == ProcessUserMessage \/ OrchestratorEvaluate

ClientSpec == ClientInit /\ [][ClientNext]_vars

\* ----------------------------------------------------------- hint heuristic
\* The hint heuristic of the automatic-hint route on one request of
\* handleAutomaticHint, for code texts at and around its thresholds.
HeuristicInit ==
  /\ sessionState = "coding"
  /\ isEditorLocked = FALSE
  /\ hintsUsed = 0
  /\ isLoading = FALSE
  /\ showComplexityModal = FALSE
  /\ isSubmitting = FALSE
  /\ problem \in Problems
  /\ skillLevel \in SkillLevels
  /\ code \in HeuristicTexts \cup {"c25", "tpl_js", "tpl_py"}
  /\ language = "javascript"
  /\ editorValue = code
  /\ chatMessages = << >>
  /\ testResults = << >>
  /\ userApproach = 0
  /\ mentorCall = IdleCall
  /\ hintCall = IdleCall
  /\ runCall = IdleCall
  /\ evalCall = IdleCall
  /\ autoHintCalls = {[code |-> code, problem |-> problem,
                       skillLevel |-> skillLevel, sessionState |-> "coding"]}
  /\ greetingCalls = {}
  /\ inactivityTimer = IdleTimer
  /\ idleTime = QuietInterval
  /\ firings = 1
  /\ autoHintToast = FALSE
  /\ problemText = << >>
  /\ mounted = TRUE

HeuristicNext == AutoHintActions

HeuristicSpec == HeuristicInit /\ [][HeuristicNext]_vars

\* ------------------------------------------------------------ pasted problem
\* The lines a pasted problem text is made of: an "Example N:" heading, an
\* "Input:" or "Output:" label with a value on its line, and a label with
\* nothing after it.
PastedLines == {"Example N:", "Input: a", "Input:", "Output: x", "Output: y"}

PastedTexts == SeqsUpTo(PastedLines, MaxLines)

IsExampleHeading(l) == l = "Example N:"

InputLabels == {"Input: a", "Input:"}

OutputLabels == {"Output: x", "Output: y", "Output:"}

\* What follows the label on its own line, trimmed.
LabelValue(l) ==
  CASE l = "Input: a" -> "a"
    [] l = "Output: x" -> "x"
    [] l = "Output: y" -> "y"
    [] OTHER -> ""

\* text.match(/Example \d+:[\s\S]*?(?=Example \d+:|$)/g): one block per
\* heading, from the heading up to the next heading or the end of the text.
ExampleBlocks(text) ==
  LET H == {i \in 1..Len(text) : IsExampleHeading(text[i])}
      Kth(k) == CHOOSE i \in H : Cardinality({j \in H : j < i}) = k - 1
      End(i) == IF \E j \in H : j > i
                THEN (CHOOSE j \in H : j > i /\ \A m \in H : m > i => j <= m) - 1
                ELSE Len(text)
  IN [k \in 1..Cardinality(H) |-> SubSeq(text, Kth(k), End(Kth(k)))]

\* example.match(/Label:\s*(.+)/i)[1].trim(), "" without a match: the first
\* label that something follows inside the block.  \s* runs over the line
\* break, so a label with nothing on its line captures the next line whole.
LabelCapture(block, labels) ==
  LET hits == {i \in 1..Len(block) :
                 block[i] \in labels /\ (LabelValue(block[i]) # "" \/ i < Len(block))}
  IN IF hits = {} THEN ""
     ELSE LET i == CHOOSE h \in hits : \A g \in hits : h <= g
          IN IF LabelValue(block[i]) # "" THEN LabelValue(block[i])
             ELSE block[i + 1]

generateTestCases(text) ==
  LET examples == ExampleBlocks(text)
  IN [k \in 1..Len(examples) |->
        [id |-> k,
         input |-> LabelCapture(examples[k], InputLabels),
         expectedOutput |-> LabelCapture(examples[k], OutputLabels)]]

\* ProblemPanel with a text in the Copy-Paste textarea.
ParseInit ==
  /\ sessionState = "approach"
  /\ isEditorLocked = TRUE
  /\ hintsUsed = 0
  /\ isLoading = FALSE
  /\ showComplexityModal = FALSE
  /\ isSubmitting = FALSE
  /\ problem = Null
  /\ skillLevel = "beginner"
  /\ code = ""
  /\ language = "javascript"
  /\ editorValue = getDefaultCode("javascript")
  /\ chatMessages = << >>
  /\ testResults = << >>
  /\ userApproach = 0
  /\ mentorCall = IdleCall
  /\ hintCall = IdleCall
  /\ runCall = IdleCall
  /\ evalCall = IdleCall
  /\ autoHintCalls = {}
  /\ greetingCalls = {}
  /\ inactivityTimer = IdleTimer
  /\ idleTime = 0
  /\ firings = 0
  /\ autoHintToast = FALSE
  /\ problemText \in PastedTexts
  /\ mounted = TRUE

\* ProblemPanel handlePasteProblem: nothing for a blank text; otherwise the
\* parsed problem is loaded (here with its test cases) and its greeting is
\* scheduled.
handlePasteProblem ==
  /\ problemText # << >>
  /\ problem' = [id |-> "custom", testCases |-> generateTestCases(problemText)]
  /\ greetingCalls' = greetingCalls \cup {"custom"}
  /\ UNCHANGED <<sessionState, isEditorLocked, hintsUsed, isLoading,
                 showComplexityModal, isSubmitting, skillLevel, code, language,
                 editorValue, chatMessages, testResults, userApproach,
                 mentorCall, hintCall, runCall, evalCall, autoHintCalls,
                 inactivityTimer, idleTime, firings, autoHintToast,
                 problemText, mounted>>

ParseNext == handlePasteProblem

ParseSpec == ParseInit /\ [][ParseNext]_vars

\* ------------------------------------------------------------ fair session
\* The session's calls, each of which eventually returns or fails: the four
\* awaited fetches of page.js resolve or reject, which resumes the handler.
LiveNext ==
  \/ SessionActions
  \/ RunActions
  \/ \E p \in {"1"} : ProblemLoad(p)
  \/ \E p \in {"1"}, net \in NetOutcomes : GreetingReply(p, net)

LiveSpec ==
  /\ Init
  /\ [][LiveNext]_vars
  /\ WF_vars(\E o \in Outcomes(LLMOutcomes) : MentorReply(o.net, o.llm))
  /\ WF_vars(\E o \in Outcomes(PlainLLMOutcomes) : HintReply(o.net, o.llm))
  /\ WF_vars(\E o \in Outcomes(PlainLLMOutcomes), json \in SimulatedRuns :
               RunReply(o.net, o.llm, json))
  /\ WF_vars(\E o \in Outcomes(PlainLLMOutcomes) : EvalReply(o.net, o.llm))

\* --------------------------------------------------------- discarded session
\* The page is unmounted (navigation, reload).  DSACoach registers no effect
\* cleanup: the timeout held by inactivityTimerRef and the fetches in flight
\* are left as they are.
Unmount ==
  /\ mounted
  /\ mounted' = FALSE
  /\ UNCHANGED <<sessionState, isEditorLocked, hintsUsed, isLoading,
                 showComplexityModal, isSubmitting, problem, skillLevel, code,
                 language, editorValue, chatMessages, testResults, userApproach,
                 mentorCall, hintCall, runCall, evalCall, autoHintCalls,
                 greetingCalls, inactivityTimer, idleTime, firings,
                 autoHintToast, problemText>>

\* An automatic-hint fetch settles after the unmount: the state updates of
\* handleAutomaticHint reach no mounted component.
AutoHintReplyAfterUnmount(req) ==
  /\ req \in autoHintCalls
  /\ autoHintCalls' = autoHintCalls \ {req}
  /\ UNCHANGED <<sessionState, isEditorLocked, hintsUsed, isLoading,
                 showComplexityModal, isSubmitting, problem, skillLevel, code,
                 language, editorValue, chatMessages, testResults, userApproach,
                 mentorCall, hintCall, runCall, evalCall, greetingCalls,
                 inactivityTimer, idleTime, firings, autoHintToast,
                 problemText, mounted>>

\* The inactivity path while mounted; after the unmount only the clock, the
\* pending timeout and the pending fetches go on.
DiscardNext ==
  \/ mounted /\ TimerNext
  \/ Unmount
  \/ ~mounted /\ Tick
  \/ ~mounted /\ TimerFire
  \/ ~mounted /\ \E req \in autoHintCalls : AutoHintReplyAfterUnmount(req)

DiscardSpec == Init /\ [][DiscardNext]_vars

\* ------------------------------------------------------------------ claims
LastMessage == chatMessages[Len(chatMessages)]
EvaluationKinds == {"evaluation", "cannedEvaluation"}
PhaseRank(st) == CASE st = "approach" -> 0 [] st = "coding" -> 1 [] st = "evaluation" -> 2

\* The unlock signal of an LLM outcome: the sentinel token or an unlock phrase
\* in a generated text.
UnlockSignal(llm) == llm.ok /\ (llm.sentinels > 0 \/ llm.phrase)

\* C1: in every reachable state the editor is locked if and only if the phase
\* is Approach.
EditorLockedIffApproach == isEditorLocked <=> sessionState = "approach"

\* C1 witness: a session that went through unlock, a counted hint and submit.
UnlockedThroughEvaluation ==
  sessionState = "evaluation" /\ ~isEditorLocked /\ hintsUsed > 0

\* C2: once the editor is unlocked, no step locks it again.
UnlockIsIrreversible == [][~isEditorLocked => ~isEditorLocked']_vars

\* C2 witness: a mentor call that failed after the unlock has been handled and
\* the editor is still unlocked.
FailedReplyAfterUnlock ==
  /\ sessionState = "coding" /\ ~isEditorLocked /\ ~mentorCall.active
  /\ Len(chatMessages) >= 2 /\ LastMessage.kind = "fallback"

\* C3: the phase never moves backwards: approach, then coding, then
\* evaluation, which is final; a reply to a message sent in coding that
\* arrives after the submit leaves the phase at evaluation.
PhaseMovesForward ==
  [][PhaseRank(sessionState') >= PhaseRank(sessionState)]_vars

\* C3 witness: the reply to a message sent before the evaluation arrived has
\* been appended after the evaluation, in phase evaluation.
LateCodingReplyHandled ==
  /\ sessionState = "evaluation" /\ ~mentorCall.active
  /\ Len(chatMessages) >= 3
  /\ LastMessage.kind = "reply"
  /\ chatMessages[Len(chatMessages) - 1].kind \in EvaluationKinds
  /\ chatMessages[Len(chatMessages) - 2].role = "user"

\* C4 as stated: for every reply to a message sent in approach, whatever the
\* outcome of the call, the editor unlocks and the phase becomes coding exactly
\* when the LLM gave the unlock signal or the text is longer than 30.
ApproachUnlocksOnSignalOrLength ==
  [][\A o \in Outcomes(LLMOutcomes) :
       (MentorReply(o.net, o.llm) /\ mentorCall.sessionState = "approach")
       => ((~isEditorLocked' /\ sessionState' = "coding")
           <=> (UnlockSignal(o.llm) \/ mentorCall.message > UnlockMinLength))]_vars

\* C4 amended: when the mentor call answers success (the fetch did not fail
\* and the request carried a problem), a message sent in approach unlocks the
\* editor and moves to coding exactly when the LLM gave the unlock signal or
\* the text is longer than 30; when the call does not answer success the
\* editor stays locked and the phase stays approach.
ApproachUnlocksOnSuccessfulReply ==
  [][\A o \in Outcomes(LLMOutcomes) :
       (MentorReply(o.net, o.llm) /\ mentorCall.sessionState = "approach")
       => IF o.net = "ok" /\ mentorCall.problem # Null
          THEN (~isEditorLocked' /\ sessionState' = "coding")
               <=> (UnlockSignal(o.llm) \/ mentorCall.message > UnlockMinLength)
          ELSE isEditorLocked' /\ sessionState' = "approach"]_vars

\* C4 witness: the length fallback alone unlocked the editor: the reply to the
\* approach of 31 characters is the LLM-failure apology, and the phase is coding.
UnlockedByLengthAlone ==
  /\ sessionState = "coding" /\ ~isEditorLocked
  /\ userApproach > UnlockMinLength
  /\ Len(chatMessages) = 2 /\ LastMessage.kind = "apology"

\* C5: the phase becomes evaluation only by the reply to a submit issued in
\* coding, and an evaluation call is in flight only with a non-empty time and
\* a non-empty space complexity.
EvaluationOnlyBySubmit ==
  [][/\ (sessionState' = "evaluation" /\ sessionState # "evaluation")
          => /\ sessionState = "coding"
             /\ evalCall.active /\ ~evalCall'.active
             /\ evalCall.sessionState = "coding"
     /\ evalCall'.active
          => /\ Trim(evalCall'.timeComplexity) # << >>
             /\ Trim(evalCall'.spaceComplexity) # << >>]_vars

\* C5 witness: the evaluation has been delivered and the phase is evaluation.
EvaluationDelivered ==
  /\ sessionState = "evaluation" /\ ~evalCall.active
  /\ Len(chatMessages) >= 1 /\ LastMessage.kind \in EvaluationKinds

\* C6 as stated: a submit whose evaluation call failed (fetch error, rejected
\* request, or failure of the LLM behind the route) leaves the phase and the
\* editor lock as they were.
FailedSubmitKeepsPhase ==
  [][\A o \in Outcomes(PlainLLMOutcomes) :
       (/\ EvalReply(o.net, o.llm)
        /\ (o.net = "throw" \/ ~o.llm.ok \/ ~EvaluateRoute(evalCall, o.llm).success))
       => (sessionState' = sessionState /\ isEditorLocked' = isEditorLocked)]_vars

\* C7 as stated: a failed LLM or network call for a message sent in approach
\* leaves the phase at approach and the editor locked.
FailedApproachCallKeepsSession ==
  [][\A o \in Outcomes(LLMOutcomes) :
       (/\ MentorReply(o.net, o.llm)
        /\ mentorCall.sessionState = "approach"
        /\ (o.net = "throw" \/ ~o.llm.ok))
       => (sessionState' = "approach" /\ isEditorLocked')]_vars

\* C8 as stated: when an explicit hint request completes, whatever its
\* outcome, hintsUsed is one more than when it was issued; no other step
\* changes hintsUsed.
EveryHintRequestCounts ==
  [][IF hintCall.active /\ ~hintCall'.active
     THEN hintsUsed' = hintCall.hintsUsed + 1
     ELSE hintsUsed' = hintsUsed]_vars

\* C9: a step of the automatic inactivity hint (the timer callback issuing
\* the request, or the reply being handled, with or without a suggestion)
\* leaves phase, editor lock and hint count unchanged.
AutomaticHintIsFree ==
  [][(firings' > firings \/ autoHintCalls' # autoHintCalls
      \/ (autoHintToast' /\ ~autoHintToast))
     => UNCHANGED <<sessionState, isEditorLocked, hintsUsed>>]_vars

\* C9 witness: an automatic hint has been surfaced and no request is pending.
AutomaticHintSurfaced == autoHintToast /\ autoHintCalls = {}

\* C10 as stated: in coding with the editor unlocked, once typed code longer
\* than the minimum has been left alone for the quiet interval and no timer
\* is pending, the inactivity hint has fired exactly once since the last edit.
DebounceFiresOnce ==
  (/\ sessionState = "coding" /\ ~isEditorLocked
   /\ code = "c25" /\ TrimLength(code) > TimerMinLength
   /\ idleTime >= QuietInterval
   /\ ~inactivityTimer.armed)
  => firings = 1

\* C11 as stated: the inactivity timer's callback issues a hint request only
\* while the phase is coding, the editor is unlocked and the code is longer
\* than the minimum; a timer armed in coding issues none once the phase is
\* evaluation.
InactivityHintOnlyInCoding ==
  [][(autoHintCalls' \ autoHintCalls # {})
     => (/\ sessionState = "coding" /\ ~isEditorLocked
         /\ TrimLength(code) > TimerMinLength)]_vars

\* C12: a call of a kind (send message, hint, run, submit) is issued only
\* when no call of that kind is in flight, and while a call is in flight the
\* flag that disables its control is set: isLoading for message, hint and run,
\* isSubmitting for submit.
NoOverlappingCalls ==
  [][/\ (\E len \in MessageLengths : SendMessage(len)) => ~mentorCall.active
     /\ HintRequest => ~hintCall.active
     /\ RunCode => ~runCall.active
     /\ (\E tc \in ComplexityInputs, sc \in ComplexityInputs :
           ModalSubmit(tc, sc) /\ ComplexityErrors(tc, sc) = {})
        => ~evalCall.active
     /\ (mentorCall.active \/ hintCall.active \/ runCall.active) => isLoading
     /\ evalCall.active => isSubmitting]_vars

\* C12 witness: a run is in flight, with its control disabled, after a hint
\* request has completed.
RunInFlightAfterHint == runCall.active /\ isLoading /\ hintsUsed > 0

\* The new chat log is the old one with exactly one message of the role added.
AppendsOne(role) ==
  /\ Len(chatMessages') = Len(chatMessages) + 1
  /\ SubSeq(chatMessages', 1, Len(chatMessages)) = chatMessages
  /\ chatMessages'[Len(chatMessages')].role = role

\* C13: a send-message operation appends exactly one user message when it is
\* issued and exactly one assistant message when its call completes, whatever
\* the outcome (success, success:false payload, thrown error); no other step
\* appends a user message.
SendAppendsUserThenAssistant ==
  [][/\ (mentorCall'.active /\ ~mentorCall.active) => AppendsOne("user")
     /\ (mentorCall.active /\ ~mentorCall'.active) => AppendsOne("assistant")
     /\ (mentorCall'.active = mentorCall.active)
        => \A i \in 1..Len(chatMessages') :
             chatMessages'[i].role = "user" => chatMessages'[i] \in
               {chatMessages[k] : k \in 1..Len(chatMessages)}]_vars

\* C13 witness: still in approach, the log ends with the user's message
\* followed by the static message of a failed mentor call.
UserThenFallbackLogged ==
  /\ sessionState = "approach" /\ ~mentorCall.active
  /\ Len(chatMessages) >= 2
  /\ chatMessages[Len(chatMessages)].kind = "fallback"
  /\ chatMessages[Len(chatMessages) - 1].role = "user"

\* C14 as stated: the chat log is append-only: in every step the previous
\* log is a prefix of the new one, also when the greeting of a loaded or
\* re-loaded problem arrives.
ChatLogAppendOnly ==
  [][/\ Len(chatMessages') >= Len(chatMessages)
     /\ SubSeq(chatMessages', 1, Len(chatMessages)) = chatMessages]_vars

\* C15: issuing a run and handling its reply leave phase, editor lock, hint
\* count and chat log unchanged; after a successful run the test-result list
\* is exactly the list the run returned, whatever it held before.
RunCodeReplacesResults ==
  [][/\ (runCall'.active # runCall.active)
        => UNCHANGED <<sessionState, isEditorLocked, hintsUsed, chatMessages>>
     /\ \A o \in Outcomes(PlainLLMOutcomes), json \in SimulatedRuns :
          (/\ RunReply(o.net, o.llm, json)
           /\ o.net = "ok"
           /\ RunRoute(runCall, o.llm, json).success)
          => testResults' = RunRoute(runCall, o.llm, json).results]_vars

\* C15 witness: a successful run has delivered its two results (one passed,
\* one failed with an error) and the session is still in coding.
RunResultsDelivered ==
  /\ sessionState = "coding" /\ ~runCall.active /\ ~isLoading
  /\ Len(testResults) = 2

\* C16 as stated: every test case whose execution errored is reported with
\* passed = false and an error, and a run that reports a failed or errored
\* case reports allPassed = false.
RunnerReportsErrors ==
  [][/\ AgentRunTests
        => \A i \in 1..Len(runCall.cases) :
             runCall.cases[i] = "throw"
             => (~testResults'[i].passed /\ testResults'[i].error)
     /\ RouteExecute
        => LET r == RunRoute(runCall, runCall.llm, runCall.json)
           IN /\ \A i \in 1..Len(r.results) :
                   r.results[i].error => ~r.results[i].passed
              /\ (\E i \in 1..Len(r.results) :
                    r.results[i].error \/ ~r.results[i].passed)
                 => ~r.allPassed
     /\ ServiceReply
        => \A i \in 1..Len(runCall.cases) :
             (runCall.cases[i].threw \/ runCall.cases[i].stderr)
             => (~testResults'[i].passed /\ testResults'[i].error)]_vars

\* C17 as stated: a run for a problem without test cases reports a validation
\* error, its outcome does not depend on the simulating LLM (which is not
\* called), and the previous test results are left unchanged.
NoTestCasesIsValidationError ==
  [][/\ (RouteExecute /\ TestCaseCount(runCall.problem) = 0)
        => /\ ~RunRoute(runCall, runCall.llm, runCall.json).success
           /\ \A l \in PlainLLMOutcomes, j \in RunnerJsons :
                RunRoute(runCall, l, j)
                  = RunRoute(runCall, runCall.llm, runCall.json)
           /\ testResults' = testResults
     /\ (AgentRunTests /\ runCall.cases = << >>)
        => testResults' = testResults
     /\ ((ServiceRunCode \/ ServiceReply) /\ runCall.cases = << >>)
        => /\ ~ExecuteRoute(runCall).success
           /\ testResults' = testResults]_vars

\* C18 as stated: whatever the outcome of the external call, a completed
\* Mentor or Evaluation client operation has handed back a defined text.
ClientReplyDefined ==
  (~mentorCall.active /\ "reply" \in DOMAIN mentorCall)
  => mentorCall.reply # Undefined

\* The tier the code length selects: below 20 none, 20 to 49 generic, 50 to
\* 199 structural, 200 and above testing.
TierOfLength(n) ==
  IF n < 20 THEN "none"
  ELSE IF n < 50 THEN "generic"
  ELSE IF n < 200 THEN "structural"
  ELSE "testing"

\* C19 as stated: for every request the heuristic handles, the rule tier it
\* applies is the tier of the code length, with exactly 50 in the structural
\* tier and exactly 200 in the testing tier.
HintTierByLength ==
  [][\A req \in autoHintCalls, net \in NetOutcomes :
       AutoHintReply(req, net)
       => StageBranch(analyzeCodeProgress(req.code))
            = TierOfLength(TrimLength(req.code))]_vars

\* C20 as stated: for every code text, problem and skill level the heuristic
\* returns its sequence of hints and does not fail.
HintHeuristicTotal ==
  [][\A req \in autoHintCalls, net \in NetOutcomes :
       AutoHintReply(req, net)
       => ~getContextualHints(analyzeCodeProgress(req.code), req.problem,
                              req.skillLevel).threw]_vars

\* C21 as stated: no message of the chat log contains the unlock sentinel,
\* however many times the LLM text contained it.
NoSentinelShown ==
  \A i \in 1..Len(chatMessages) : chatMessages[i].sentinels = 0

ProblemImmutable == [][problem # Null => problem' = problem]_vars

\* The heading lines of the pasted text.
PastedHeadings == {i \in 1..Len(problemText) : IsExampleHeading(problemText[i])}

\* The value written on the first line of the i-th block that carries the
\* label, "" when the block has no such line.
BlockValue(i, labels) ==
  LET block == ExampleBlocks(problemText)[i]
      at == {j \in 1..Len(block) : block[j] \in labels}
  IN IF at = {} THEN ""
     ELSE LabelValue(block[CHOOSE j \in at : \A g \in at : j <= g])

\* C24 as stated: once a pasted text is loaded, a text with exactly two
\* example blocks has given two test cases, the i-th with the Input and the
\* Output of the i-th block, and a text with no block has given none.
PasteParsesExamples ==
  greetingCalls # {} =>
    /\ Cardinality(PastedHeadings) = 2 =>
         /\ Len(problem.testCases) = 2
         /\ \A i \in 1..2 :
              /\ problem.testCases[i].input = BlockValue(i, InputLabels)
              /\ problem.testCases[i].expectedOutput = BlockValue(i, OutputLabels)
    /\ PastedHeadings = {} => problem.testCases = << >>

NoTimerAfterDiscard ==
  [][~mounted => /\ inactivityTimer' = inactivityTimer
                 /\ firings' = firings
                 /\ autoHintCalls' \subseteq autoHintCalls]_vars

\* C27 as stated: in every run-code response allPassed is true exactly when
\* every result passed, and there is one result per test case.
RunResponseConsistent ==
  [][RouteExecute
       => LET r == RunRoute(runCall, runCall.llm, runCall.json)
          IN r.success
             => /\ r.allPassed <=> \A i \in 1..Len(r.results) : r.results[i].passed
                /\ Len(r.results) = TestCaseCount(runCall.problem)]_vars

\* C28: the per-case runners (CodeAgent.runTests, CodeExecutionService) give
\* one result per test case, in order, and result i is what test case i
\* alone gives: a case that throws is a failed result and the cases after it
\* still run.
RunnersIsolateCases ==
  [][/\ AgentRunTests
        => /\ Len(testResults') = Len(runCall.cases)
           /\ \A i \in 1..Len(runCall.cases) :
                /\ testResults'[i] = agentResult(runCall.cases[i])
                /\ runCall.cases[i] = "throw" => ~testResults'[i].passed
     /\ ServiceReply
        => /\ Len(testResults') = Len(runCall.cases)
           /\ \A i \in 1..Len(runCall.cases) :
                /\ testResults'[i] = runTestCase(runCall.cases[i])
                /\ runCall.cases[i].threw => ~testResults'[i].passed]_vars

\* C28 witness: a run has delivered three results of which the first failed
\* and the two after it passed.
LaterCasesRanAfterFailure ==
  /\ ~runCall.active
  /\ Len(testResults) = 3
  /\ ~testResults[1].passed /\ testResults[2].passed /\ testResults[3].passed

\* C29: whenever the editor is unlocked or the phase is coding or evaluation,
\* a problem is loaded; a message sent without a problem leaves lock and
\* phase as they are.
UnlockedHasProblem ==
  /\ (~isEditorLocked \/ sessionState # "approach") => problem # Null
  /\ (mentorCall.active /\ mentorCall.problem = Null)
     => \A l \in LLMOutcomes : ~MentorRoute(mentorCall, l).success

\* C29 witness: a message was sent with no problem loaded and has been
\* answered: the session is still locked in the approach phase.
MessageWithoutProblemAnswered ==
  /\ problem = Null /\ ~mentorCall.active /\ ~isLoading
  /\ Len(chatMessages) = 2 /\ chatMessages[1].role = "user"
  /\ isEditorLocked /\ sessionState = "approach"

\* C30 as stated: when the LLM call behind a hint request fails, the route
\* answers with the predefined hint at index hintsUsed mod the number of
\* hints in the list of the request's skill level.
FailedHintUsesFallbackList ==
  hintCall.active
    => HintRoute(hintCall, LLMFailure).hint
         = FALLBACK_HINTS(hintCall.skillLevel)
             [(hintCall.hintsUsed % FallbackHintCount) + 1]

====
